---- MODULE Spec2Model ----
(***************************************************************************)
(* Model of the long-running-operation token handling of                   *)
(* mailstore.server.Client (mailstore.spe.Client has the same code):       *)
(* __hasToken, __handleToken, __callMethod, GetStatus and CancelAsync.     *)
(*                                                                         *)
(* A decoded JSON object is a function from the keys it holds to their     *)
(* values, so  "token" in jsonValues  is  "token" \in DOMAIN jsonValues.   *)
(* A Python optional argument is << >> for None and <<v>> for the value v. *)
(* Each caller (thread) runs one public method at a time; a method is      *)
(* suspended only inside urllib.request.urlopen, so one action runs the    *)
(* code from one urlopen to the next (or to the return / raise).           *)
(***************************************************************************)
EXTENDS Integers, Sequences, FiniteSets, TLC

VARIABLES client, workload, call, pc, frame, trace, result

vars == <<client, workload, call, pc, frame, trace, result>>

(* ------------------------------ bounds -------------------------------- *)

\* Most status refreshes the server lets one call issue before it answers
\* with something that ends the poll loop.
MaxPolls == 2

\* Largest statusVersion the server sends.
MaxVersion == 1

\* Callers that use the one client instance.
NumThreads == 2

Threads == 1..NumThreads

(* --------------------------- Python values ---------------------------- *)

\* JSON null / Python None as the value of a JSON string field.
Null == "<None>"

\* Python None as an optional argument, and a given argument.
None == << >>

Some(v) == <<v>>

IsNone(a) == a = << >>

ValueOf(a) == a[1]

DefaultWaitTime == 1000

\* str(n) for the statusVersion values of the model.
Str(n) ==
  CASE n = 0 -> "0"
    [] n = 1 -> "1"
    [] n = 2 -> "2"
    [] n = 3 -> "3"
    [] OTHER -> "4"

\* Python truth value of the value of a form argument: the name decides the
\* type (millisecondsTimeout is an int, the others are strings).
Truthy(key, v) == IF key = "millisecondsTimeout" THEN v # 0 ELSE v # ""

(* ------------------------- the server's answers ----------------------- *)

\* A JSON object with the optional fields given as sets of at most one value.
MkJson(tk, sv, sc) ==
  [k \in {"token" : x \in tk} \cup {"statusVersion" : x \in sv}
           \cup {"statusCode" : x \in sc} |->
     IF k = "token" THEN CHOOSE x \in tk : TRUE
     ELSE IF k = "statusVersion" THEN CHOOSE x \in sv : TRUE
     ELSE CHOOSE x \in sc : TRUE]

Optional(S) == {{}} \cup {{x} : x \in S}

StatusCodes == {"running", "completed", "bogus"}

Versions == 0..MaxVersion

\* Every shape of response: each field missing or present, token null, empty
\* or a real token, statusCode running, terminal or unrecognised.
JsonAny ==
  {MkJson(tk, sv, sc) : tk \in Optional({Null, "", "T1"}),
                        sv \in Optional(Versions),
                        sc \in Optional(StatusCodes)}

\* The token of the task started by caller t.
TokenOf(t) == IF t = 1 THEN "T1" ELSE IF t = 2 THEN "T2" ELSE "T3"

\* The responses of a well-behaved server about the task of caller t.
JsonTask(t) ==
  {MkJson({TokenOf(t)}, {sv}, {sc}) : sv \in Versions,
                                      sc \in {"running", "completed"}}

\* What the server may answer to caller t: anything when one caller is
\* studied, the caller's own task when several run concurrently.
Json(t) == IF workload = "sequential" THEN JsonAny ELSE JsonTask(t)

Callers == IF workload = "sequential" THEN {1} ELSE Threads

TransportErrors == {"HTTPError", "MailStoreBaseError"}

(* ------------------------------ the trace ----------------------------- *)

\* What a call has done so far, in order: the requests it sent (on: the
\* response the request is about), the responses it received, the progress
\* callbacks it made and the exception that ended it.
UrlopenEvent(method, mode, data, on) ==
  [ev |-> "urlopen", method |-> method, mode |-> mode, data |-> data, on |-> on]

RecvEvent(jsonValues) == [ev |-> "recv", jsonValues |-> jsonValues]

CallbackEvent(jsonValues) == [ev |-> "callback", jsonValues |-> jsonValues]

RaiseEvent(error) == [ev |-> "raise", error |-> error]

\* A call's state: where it is, its suspended stack, its trace, its outcome.
NoFrame ==
  [method |-> "", autoHandleToken |-> FALSE, inHandleToken |-> FALSE,
   waitTime |-> 0]

NoResult == [kind |-> "none"]

NoCall ==
  [op |-> "", autoHandleToken |-> None, jsonValues |-> << >>,
   waitTime |-> None]

Returned(jsonValues, tr) ==
  [pc |-> "returned", frame |-> NoFrame, trace |-> tr,
   result |-> [kind |-> "return", value |-> jsonValues]]

Raised(error, tr) ==
  [pc |-> "raised", frame |-> NoFrame,
   trace |-> Append(tr, RaiseEvent(error)),
   result |-> [kind |-> "raise", error |-> error]]

(* ------------------------------ the code ------------------------------ *)

\* Faulty variant of hasToken: the test for a null token is left out.
hasTokenNullAccepted(jsonValues) ==
  /\ "token" \in DOMAIN jsonValues
  /\ "statusVersion" \in DOMAIN jsonValues

\* Faulty variant of hasToken: the token is tested for truth, not for None.
hasTokenTruthy(jsonValues) ==
  /\ "token" \in DOMAIN jsonValues
  /\ jsonValues["token"] # Null
  /\ jsonValues["token"] # ""
  /\ "statusVersion" \in DOMAIN jsonValues

hasToken(jsonValues) ==
  /\ "token" \in DOMAIN jsonValues
  /\ jsonValues["token"] # Null
  /\ "statusVersion" \in DOMAIN jsonValues

\* self.callbackStatus(jsonValues), when the client has a callable callback.
Callback(jsonValues, tr) ==
  IF client.callbackStatus = "callable"
  THEN Append(tr, CallbackEvent(jsonValues))
  ELSE tr

\* The urlencoded form data: the arguments whose value is true in Python.
FormData(arguments) ==
  [k \in {key \in DOMAIN arguments : Truthy(key, arguments[key])} |->
     arguments[k]]

\* Faulty variant of callMethod: the per-call autoHandleToken is ignored.
callMethodDefaultOnly(method, arguments, mode, autoHandleToken, inHandle, wait, on, tr) ==
  [pc |-> "urlopen",
   frame |-> [method |-> method,
              autoHandleToken |-> client.autoHandleToken,
              inHandleToken |-> inHandle, waitTime |-> wait],
   trace |-> Append(tr, UrlopenEvent(method, mode, FormData(arguments), on)),
   result |-> NoResult]

\* Faulty variant of callMethod: "autoHandleToken or self.autoHandleToken",
\* so a per-call False falls back to the client's default.
callMethodTruthyOverride(method, arguments, mode, autoHandleToken, inHandle, wait, on, tr) ==
  [pc |-> "urlopen",
   frame |-> [method |-> method,
              autoHandleToken |-> IF autoHandleToken = Some(TRUE)
                                  THEN TRUE
                                  ELSE client.autoHandleToken,
              inHandleToken |-> inHandle, waitTime |-> wait],
   trace |-> Append(tr, UrlopenEvent(method, mode, FormData(arguments), on)),
   result |-> NoResult]

\* __callMethod up to urlopen: the effective flag, the request, the wait.
\* inHandle and wait are the caller's stack: whether __handleToken is
\* waiting for this request, and its local waitTime.
callMethod(method, arguments, mode, autoHandleToken, inHandle, wait, on, tr) ==
  [pc |-> "urlopen",
   frame |-> [method |-> method,
              autoHandleToken |-> IF ~IsNone(autoHandleToken)
                                  THEN ValueOf(autoHandleToken)
                                  ELSE client.autoHandleToken,
              inHandleToken |-> inHandle, waitTime |-> wait],
   trace |-> Append(tr, UrlopenEvent(method, mode, FormData(arguments), on)),
   result |-> NoResult]

\* Faulty variant of GetStatusBody: without a token it hands its argument
\* back instead of raising.
GetStatusBodySilent(jsonValues, waitTime, inHandle, loopWait, tr) ==
  LET wt == IF ~IsNone(waitTime) /\ ValueOf(waitTime) # 0
            THEN ValueOf(waitTime) ELSE client.waitTime
  IN IF hasToken(jsonValues)
     THEN callMethod("get-status",
                     [token |-> jsonValues["token"],
                      millisecondsTimeout |-> wt,
                      lastKnownStatusVersion |->
                        Str(jsonValues["statusVersion"])],
                     "", Some(FALSE), inHandle, loopWait, jsonValues, tr)
     ELSE Returned(jsonValues, tr)

\* Faulty variant of GetStatusBody: the status check is sent without
\* autoHandleToken=False, so the client's default applies to it.
GetStatusBodyAutoHandled(jsonValues, waitTime, inHandle, loopWait, tr) ==
  LET wt == IF ~IsNone(waitTime) /\ ValueOf(waitTime) # 0
            THEN ValueOf(waitTime) ELSE client.waitTime
  IN IF hasToken(jsonValues)
     THEN callMethod("get-status",
                     [token |-> jsonValues["token"],
                      millisecondsTimeout |-> wt,
                      lastKnownStatusVersion |->
                        Str(jsonValues["statusVersion"])],
                     "", None, inHandle, loopWait, jsonValues, tr)
     ELSE Raised("MailStoreNoTokenError", tr)

\* GetStatus(jsonValues, waitTime): called by the caller (inHandle FALSE) or
\* by the poll loop (inHandle TRUE, loopWait the loop's waitTime).
GetStatusBody(jsonValues, waitTime, inHandle, loopWait, tr) ==
  LET wt == IF ~IsNone(waitTime) /\ ValueOf(waitTime) # 0
            THEN ValueOf(waitTime) ELSE client.waitTime
  IN IF hasToken(jsonValues)
     THEN callMethod("get-status",
                     [token |-> jsonValues["token"],
                      millisecondsTimeout |-> wt,
                      lastKnownStatusVersion |->
                        Str(jsonValues["statusVersion"])],
                     "", Some(FALSE), inHandle, loopWait, jsonValues, tr)
     ELSE Raised("MailStoreNoTokenError", tr)

\* The string concatenation  "..." + jsonValues["token"] + "..."  that builds
\* a log line of __handleToken: it is evaluated at every log level.
TokenLogError(jsonValues) ==
  IF "token" \notin DOMAIN jsonValues THEN "KeyError"
  ELSE IF jsonValues["token"] = Null THEN "TypeError"
  ELSE "ok"

\* Faulty variant of LoopHead: the loop gives up after one refresh and
\* returns what it has.
LoopHeadOneRefresh(jsonValues, waitTime, tr) ==
  IF "statusCode" \notin DOMAIN jsonValues THEN Raised("KeyError", tr)
  ELSE IF TokenLogError(jsonValues) # "ok"
  THEN Raised(TokenLogError(jsonValues), tr)
  ELSE IF /\ jsonValues["statusCode"] = "running"
          /\ Len(SelectSeq(tr, LAMBDA e : e.ev = "urlopen"
                                            /\ e.method = "get-status")) < 1
  THEN GetStatusBody(jsonValues, Some(waitTime), TRUE, waitTime, tr)
  ELSE Returned(jsonValues, tr)

\* Faulty variant of LoopHead: it polls until the task is "completed", so
\* also on an unrecognised statusCode.
LoopHeadUntilCompleted(jsonValues, waitTime, tr) ==
  IF "statusCode" \notin DOMAIN jsonValues THEN Raised("KeyError", tr)
  ELSE IF TokenLogError(jsonValues) # "ok"
  THEN Raised(TokenLogError(jsonValues), tr)
  ELSE IF jsonValues["statusCode"] # "completed"
  THEN GetStatusBody(jsonValues, Some(waitTime), TRUE, waitTime, tr)
  ELSE Returned(jsonValues, tr)

\* __handleToken from the test of its while loop to the next urlopen, or to
\* its return.
LoopHead(jsonValues, waitTime, tr) ==
  IF "statusCode" \notin DOMAIN jsonValues THEN Raised("KeyError", tr)
  ELSE IF TokenLogError(jsonValues) # "ok"
  THEN Raised(TokenLogError(jsonValues), tr)
  ELSE IF jsonValues["statusCode"] = "running"
  THEN GetStatusBody(jsonValues, Some(waitTime), TRUE, waitTime, tr)
  ELSE Returned(jsonValues, tr)

\* Faulty variant of handleToken: the loop refreshes once before it tests
\* the statusCode (do ... while).
handleTokenRefreshFirst(jsonValues, waitTime, tr) ==
  LET wt == IF ~IsNone(waitTime) THEN ValueOf(waitTime) ELSE client.waitTime
  IN GetStatusBody(jsonValues, Some(wt), TRUE, wt, Callback(jsonValues, tr))

\* Faulty variant of handleToken: no callback for the initial response.
handleTokenNoFirstCallback(jsonValues, waitTime, tr) ==
  LET wt == IF ~IsNone(waitTime) THEN ValueOf(waitTime) ELSE client.waitTime
  IN LoopHead(jsonValues, wt, tr)

\* __handleToken(jsonValues, waitTime=None) from its first line.
handleToken(jsonValues, waitTime, tr) ==
  LET wt == IF ~IsNone(waitTime) THEN ValueOf(waitTime) ELSE client.waitTime
  IN LoopHead(jsonValues, wt, Callback(jsonValues, tr))

\* Faulty variant of Dispatch: the callback is made for every response that
\* is handed back without polling.
DispatchCallbackOnReturn(jsonValues, autoHandleToken, tr) ==
  IF hasToken(jsonValues)
  THEN IF autoHandleToken
       THEN handleToken(jsonValues, None, tr)
       ELSE Returned(jsonValues, Callback(jsonValues, tr))
  ELSE Returned(jsonValues, Callback(jsonValues, tr))

\* Faulty variant of Dispatch: the token presence check is left out.
DispatchWithoutCheck(jsonValues, autoHandleToken, tr) ==
  IF autoHandleToken
  THEN handleToken(jsonValues, None, tr)
  ELSE Returned(jsonValues, tr)

\* __callMethod after the response is decoded: poll or hand back.
Dispatch(jsonValues, autoHandleToken, tr) ==
  IF hasToken(jsonValues)
  THEN IF autoHandleToken
       THEN handleToken(jsonValues, None, tr)
       ELSE Returned(jsonValues, tr)
  ELSE Returned(jsonValues, tr)

\* Faulty variant of LoopBodyAfterGetStatus: a client with a callback leaves
\* the polling to it and hands the refreshed status back.
LoopBodyCallbackEndsLoop(jsonValues, waitTime, tr) ==
  IF client.callbackStatus = "callable"
  THEN Returned(jsonValues, Callback(jsonValues, tr))
  ELSE LoopHead(jsonValues, waitTime, tr)

\* Faulty variant of LoopBodyAfterGetStatus: the callback is made for the
\* final status only, not for a refreshed status that is still running.
LoopBodyCallbackWhenDone(jsonValues, waitTime, tr) ==
  LoopHead(jsonValues, waitTime,
           IF "statusCode" \in DOMAIN jsonValues
                /\ jsonValues["statusCode"] = "running"
           THEN tr
           ELSE Callback(jsonValues, tr))

\* The loop body of __handleToken after GetStatus returned jsonValues.
LoopBodyAfterGetStatus(jsonValues, waitTime, tr) ==
  LoopHead(jsonValues, waitTime, Callback(jsonValues, tr))

\* urlopen returned and the body decoded to jsonValues: the rest of
\* __callMethod, then, when the request was a refresh of the poll loop
\* (which GetStatus hands through), the rest of the loop body.
AfterResponse(fr, jsonValues, tr) ==
  LET got == Dispatch(jsonValues, fr.autoHandleToken,
                      Append(tr, RecvEvent(jsonValues)))
  IN IF fr.inHandleToken /\ got.pc = "returned"
     THEN LoopBodyAfterGetStatus(got.result.value, fr.waitTime, got.trace)
     ELSE got

\* Faulty variant of AfterFailure: the poll loop catches the error of a
\* refresh and returns the last response it has.
AfterFailureCaughtByLoop(fr, error, tr) ==
  IF fr.inHandleToken
  THEN Returned(tr[Len(tr)].on, Append(tr, RaiseEvent(error)))
  ELSE Raised(error, tr)

\* urlopen raised: __callMethod logs and raises again, nobody catches.
AfterFailure(fr, error, tr) == Raised(error, tr)

\* Faulty variant of CancelAsyncBody: only the token key is looked for.
CancelAsyncBodyKeyOnly(jsonValues, tr) ==
  IF "token" \in DOMAIN jsonValues
  THEN callMethod("cancel-async", [token |-> jsonValues["token"]], "", None,
                  FALSE, 0, jsonValues, tr)
  ELSE Raised("MailStoreNoTokenError", tr)

\* CancelAsync(jsonValues).
CancelAsyncBody(jsonValues, tr) ==
  IF hasToken(jsonValues)
  THEN callMethod("cancel-async", [token |-> jsonValues["token"]], "", None,
                  FALSE, 0, jsonValues, tr)
  ELSE Raised("MailStoreNoTokenError", tr)

(* ----------------------------- the actions ---------------------------- *)

Ready(t) == t \in Callers /\ pc[t] = "idle"

\* Faulty variant of Become: __callMethod stores the effective flag of the
\* call in self.autoHandleToken.
BecomeStoresFlag(t, st) ==
  /\ pc' = [pc EXCEPT ![t] = st.pc]
  /\ frame' = [frame EXCEPT ![t] = st.frame]
  /\ trace' = [trace EXCEPT ![t] = st.trace]
  /\ result' = [result EXCEPT ![t] = st.result]
  /\ client' = IF st.pc = "urlopen"
               THEN [client EXCEPT
                       !.autoHandleToken = st.frame.autoHandleToken]
               ELSE client
  /\ UNCHANGED workload

\* Faulty variant of Become: the suspended stack of a call is kept on the
\* client object, so every call overwrites the one of the other callers.
BecomeSharedFrame(t, st) ==
  /\ pc' = [pc EXCEPT ![t] = st.pc]
  /\ frame' = [u \in Threads |-> st.frame]
  /\ trace' = [trace EXCEPT ![t] = st.trace]
  /\ result' = [result EXCEPT ![t] = st.result]
  /\ UNCHANGED <<client, workload>>

\* The local variables of the running method of caller t (they live in the
\* caller's own stack, not on the client).
Become(t, st) ==
  /\ pc' = [pc EXCEPT ![t] = st.pc]
  /\ frame' = [frame EXCEPT ![t] = st.frame]
  /\ trace' = [trace EXCEPT ![t] = st.trace]
  /\ result' = [result EXCEPT ![t] = st.result]
  /\ UNCHANGED <<client, workload>>

\* A wrapped API method, e.g. CompactMasterDatabase(autoHandleToken=...).
Invoke(t) ==
  /\ Ready(t)
  /\ \E autoHandleToken \in {None, Some(TRUE), Some(FALSE)} :
       /\ call' = [call EXCEPT ![t] =
                     [NoCall EXCEPT !.op = "Invoke",
                                    !.autoHandleToken = autoHandleToken]]
       /\ Become(t, callMethod("CompactMasterDatabase", << >>, "invoke",
                               autoHandleToken, FALSE, 0, << >>, << >>))

\* The caller calls GetStatus(jsonValues, waitTime=...) itself.
GetStatus(t) ==
  /\ Ready(t)
  /\ \E jsonValues \in Json(t), waitTime \in {None, Some(0), Some(500)} :
       /\ call' = [call EXCEPT ![t] =
                     [NoCall EXCEPT !.op = "GetStatus",
                                    !.jsonValues = jsonValues,
                                    !.waitTime = waitTime]]
       /\ Become(t, GetStatusBody(jsonValues, waitTime, FALSE, 0, << >>))

\* The responses a caller asks to cancel: those of a task that is not known
\* to have ended (statusCode "running" or none).
Cancellable(t) ==
  {jsonValues \in Json(t) :
     "statusCode" \in DOMAIN jsonValues
       => jsonValues["statusCode"] = "running"}

\* The caller calls CancelAsync(jsonValues).
CancelAsync(t) ==
  /\ Ready(t)
  /\ \E jsonValues \in Cancellable(t) :
       /\ call' = [call EXCEPT ![t] =
                     [NoCall EXCEPT !.op = "CancelAsync",
                                    !.jsonValues = jsonValues]]
       /\ Become(t, CancelAsyncBody(jsonValues, << >>))

\* The status-check requests a call has sent.
StatusCalls(tr) ==
  SelectSeq(tr, LAMBDA e : e.ev = "urlopen" /\ e.method = "get-status")

\* The server answers; after MaxPolls refreshes of one poll loop it no longer
\* answers "running".
UrlopenReturns(t) ==
  /\ pc[t] = "urlopen"
  /\ \E jsonValues \in Json(t) :
       /\ (frame[t].inHandleToken /\ Len(StatusCalls(trace[t])) >= MaxPolls)
            => ("statusCode" \in DOMAIN jsonValues
                  => jsonValues["statusCode"] # "running")
       /\ Become(t, AfterResponse(frame[t], jsonValues, trace[t]))
  /\ UNCHANGED call

\* The request fails (HTTP error status, connection failure).
UrlopenRaises(t) ==
  /\ pc[t] = "urlopen"
  /\ \E error \in TransportErrors :
       Become(t, AfterFailure(frame[t], error, trace[t]))
  /\ UNCHANGED call

\* The caller has its result (or caught the error) and is free to call again.
Finish(t) ==
  /\ pc[t] \in {"returned", "raised"}
  /\ call' = [call EXCEPT ![t] = NoCall]
  /\ pc' = [pc EXCEPT ![t] = "idle"]
  /\ frame' = [frame EXCEPT ![t] = NoFrame]
  /\ trace' = [trace EXCEPT ![t] = << >>]
  /\ result' = [result EXCEPT ![t] = NoResult]
  /\ UNCHANGED <<client, workload>>

\* Client(autoHandleToken=..., waitTime=..., callbackStatus=...).
Clients ==
  [autoHandleToken : BOOLEAN, waitTime : {0, DefaultWaitTime},
   callbackStatus : {"None", "callable"}]

InitCalls ==
  /\ client \in Clients
  /\ call = [t \in Threads |-> NoCall]
  /\ pc = [t \in Threads |-> "idle"]
  /\ frame = [t \in Threads |-> NoFrame]
  /\ trace = [t \in Threads |-> << >>]
  /\ result = [t \in Threads |-> NoResult]

Init == workload = "sequential" /\ InitCalls

Next ==
  \E t \in Threads :
    \/ Invoke(t)
    \/ GetStatus(t)
    \/ CancelAsync(t)
    \/ UrlopenReturns(t)
    \/ UrlopenRaises(t)
    \/ Finish(t)

Spec == Init /\ [][Next]_vars

\* Several callers share the client, each with its own task on the server.
InitConcurrent == workload = "concurrent" /\ InitCalls

SpecConcurrent == InitConcurrent /\ [][Next]_vars

(* ------------------------ reading a call's trace ---------------------- *)

Events(tr, kind) == SelectSeq(tr, LAMBDA e : e.ev = kind)

\* The responses a call received, in order.
Recvs(tr) ==
  LET recv == Events(tr, "recv")
  IN [i \in 1..Len(recv) |-> recv[i].jsonValues]

\* The arguments of the progress callbacks a call made, in order.
Callbacks(tr) ==
  LET callback == Events(tr, "callback")
  IN [i \in 1..Len(callback) |-> callback[i].jsonValues]

\* The token presence check as the specification words it (4.1).
Trackable(jsonValues) ==
  /\ "token" \in DOMAIN jsonValues
  /\ "statusVersion" \in DOMAIN jsonValues
  /\ jsonValues["token"] # Null

IsRunning(jsonValues) ==
  "statusCode" \in DOMAIN jsonValues /\ jsonValues["statusCode"] = "running"

\* A response with a statusCode other than "running".
IsTerminal(jsonValues) ==
  "statusCode" \in DOMAIN jsonValues /\ jsonValues["statusCode"] # "running"

\* The effective autoHandle flag of a call: the override, else the default.
EffectiveAutoHandle(t) ==
  IF call[t].autoHandleToken = Some(TRUE) THEN TRUE
  ELSE IF call[t].autoHandleToken = Some(FALSE) THEN FALSE
  ELSE client.autoHandleToken

\* Caller t runs a wrapped API method with automatic token handling and the
\* first response was trackable.
AutoHandled(t) ==
  /\ call[t].op = "Invoke"
  /\ EffectiveAutoHandle(t)
  /\ Len(Recvs(trace[t])) >= 1
  /\ Trackable(Recvs(trace[t])[1])

ReturnedValue(t, jsonValues) ==
  /\ pc[t] = "returned"
  /\ result[t] = [kind |-> "return", value |-> jsonValues]

RaisedError(t, error) ==
  /\ pc[t] = "raised"
  /\ result[t] = [kind |-> "raise", error |-> error]

Last(s) == s[Len(s)]

(* ------------------------------ the claims ---------------------------- *)

\* C1: an automatically handled call whose first response is trackable
\* returns the first response (initial or refreshed) whose statusCode is not
\* "running", whatever that statusCode and whatever the shape of the
\* response, also when it carries no token any more.
C1_ReturnsTerminalResponse ==
  \A t \in Threads :
    (/\ AutoHandled(t)
     /\ Recvs(trace[t])[1]["token"] # ""
     /\ IsTerminal(Last(Recvs(trace[t]))))
    => ReturnedValue(t, Last(Recvs(trace[t])))

\* C2: when the poll loop saw r0 (trackable, running), then r1..rn with rn
\* the first one not running, the progress callback was called n+1 times,
\* with r0, r1, ..., rn in this order, and n status refreshes were sent.
C2_CallbackPerResponse ==
  \A t \in Threads :
    LET r == Recvs(trace[t])
    IN (/\ AutoHandled(t)
        /\ client.callbackStatus = "callable"
        /\ Len(r) >= 2
        /\ \A i \in 1..(Len(r) - 1) : IsRunning(r[i])
        /\ IsTerminal(Last(r)))
       => /\ Callbacks(trace[t]) = r
          /\ Len(StatusCalls(trace[t])) = Len(r) - 1

C2_Witness ==
  \E t \in Threads :
    /\ AutoHandled(t)
    /\ client.callbackStatus = "callable"
    /\ Len(Recvs(trace[t])) = 3
    /\ IsRunning(Recvs(trace[t])[1])
    /\ IsRunning(Recvs(trace[t])[2])
    /\ IsTerminal(Recvs(trace[t])[3])
    /\ Recvs(trace[t])[3]["statusCode"] = "completed"
    /\ Recvs(trace[t])[1] # Recvs(trace[t])[2]
    /\ Len(Callbacks(trace[t])) = 3
    /\ ReturnedValue(t, Recvs(trace[t])[3])

\* C3: with the effective autoHandle flag false, a wrapped API method sends
\* one request and returns its response unchanged, whatever the statusCode.
C3_ManualReturnsFirstResponse ==
  \A t \in Threads :
    (/\ call[t].op = "Invoke"
     /\ ~EffectiveAutoHandle(t)
     /\ Len(Recvs(trace[t])) >= 1)
    => /\ ReturnedValue(t, Recvs(trace[t])[1])
       /\ Len(Events(trace[t], "urlopen")) = 1
       /\ Len(Recvs(trace[t])) = 1

C3_Witness ==
  \E t \in Threads :
    /\ call[t].op = "Invoke"
    /\ ~EffectiveAutoHandle(t)
    /\ client.autoHandleToken
    /\ Len(Recvs(trace[t])) = 1
    /\ Trackable(Recvs(trace[t])[1])
    /\ IsRunning(Recvs(trace[t])[1])
    /\ ReturnedValue(t, Recvs(trace[t])[1])

\* C4: a first response that fails the token presence check is returned as
\* it is, with either value of the autoHandle flag and any statusCode: the
\* poll loop is not entered (no callback, no status refresh) and the first
\* request stays the only one.
C4_NoTokenReturnsAtOnce ==
  \A t \in Threads :
    (/\ call[t].op = "Invoke"
     /\ Len(Recvs(trace[t])) >= 1
     /\ ~Trackable(Recvs(trace[t])[1]))
    => /\ ReturnedValue(t, Recvs(trace[t])[1])
       /\ trace[t] = <<trace[t][1], RecvEvent(Recvs(trace[t])[1])>>
       /\ trace[t][1].ev = "urlopen"
       /\ trace[t][1].method = "CompactMasterDatabase"

C4_Witness ==
  \E t \in Threads :
    /\ call[t].op = "Invoke"
    /\ EffectiveAutoHandle(t)
    /\ client.callbackStatus = "callable"
    /\ Len(Recvs(trace[t])) = 1
    /\ ~Trackable(Recvs(trace[t])[1])
    /\ IsRunning(Recvs(trace[t])[1])
    /\ "token" \in DOMAIN Recvs(trace[t])[1]
    /\ ReturnedValue(t, Recvs(trace[t])[1])

\* C5: CancelAsync on a trackable response sends one request, the cancel
\* call, never a status refresh, and returns the answer to the cancel call,
\* for every client configuration and every answer that is a task response
\* (also a trackable one that is still "running").
C5_CancelSendsOneRequest ==
  \A t \in Threads :
    (/\ call[t].op = "CancelAsync"
     /\ Trackable(call[t].jsonValues)
     /\ call[t].jsonValues["token"] # "")
    => /\ Len(Events(trace[t], "urlopen")) = 1
       /\ trace[t][1].method = "cancel-async"
       /\ "token" \in DOMAIN trace[t][1].data
       /\ Len(StatusCalls(trace[t])) = 0
       /\ (Len(Recvs(trace[t])) >= 1
             /\ "statusCode" \in DOMAIN Recvs(trace[t])[1])
            => ReturnedValue(t, Recvs(trace[t])[1])

\* C6: every status-check request is sent for a response that passes the
\* token presence check (non-null token and a statusVersion), whoever asks
\* for it: the caller through GetStatus or the poll loop.
C6_PollsOnlyTrackable ==
  \A t \in Threads :
    \A i \in 1..Len(trace[t]) :
      (trace[t][i].ev = "urlopen" /\ trace[t][i].method = "get-status")
        => Trackable(trace[t][i].on)

C6_Witness ==
  \E t \in Threads :
    /\ AutoHandled(t)
    /\ Len(StatusCalls(trace[t])) = 2
    /\ StatusCalls(trace[t])[2].on = Recvs(trace[t])[2]
    /\ StatusCalls(trace[t])[2].on["token"] = ""

\* C7: after the poll loop received a response whose statusCode is not
\* "running", the call sends no further request.
C7_NoRefreshAfterTerminal ==
  \A t \in Threads :
    \A i \in 1..Len(trace[t]) :
      (trace[t][i].ev = "recv" /\ IsTerminal(trace[t][i].jsonValues))
        => \A j \in (i + 1)..Len(trace[t]) : trace[t][j].ev # "urlopen"

C7_Witness ==
  \E t \in Threads :
    /\ AutoHandled(t)
    /\ Len(StatusCalls(trace[t])) = 1
    /\ Len(Recvs(trace[t])) = 2
    /\ IsTerminal(Recvs(trace[t])[2])
    /\ Recvs(trace[t])[2]["statusCode"] = "bogus"
    /\ ReturnedValue(t, Recvs(trace[t])[2])

\* C8: an error raised by a status refresh of the poll loop (the request
\* fails, or the response to refresh has no token) ends the call: the raise
\* is the last thing the call does (no request, no callback after it, no
\* retry), the caller gets that error and no response.
C8_RefreshErrorEndsCall ==
  \A t \in Threads :
    \A i \in 1..Len(trace[t]) :
      trace[t][i].ev = "raise"
        => /\ i = Len(trace[t])
           /\ RaisedError(t, trace[t][i].error)

C8_Witness ==
  \E t \in Threads :
    /\ AutoHandled(t)
    /\ Len(StatusCalls(trace[t])) = 2
    /\ Len(Recvs(trace[t])) = 2
    /\ Len(trace[t]) >= 2
    /\ trace[t][Len(trace[t]) - 1].ev = "urlopen"
    /\ RaisedError(t, "HTTPError")

\* C9: CancelAsync with a response that fails the token presence check
\* raises the no-token error and sends no request.
C9_CancelWithoutToken ==
  \A t \in Threads :
    (/\ call[t].op = "CancelAsync"
     /\ ~Trackable(call[t].jsonValues)
     /\ pc[t] # "idle")
    => /\ RaisedError(t, "MailStoreNoTokenError")
       /\ Len(Events(trace[t], "urlopen")) = 0

C9_Witness ==
  \E t \in Threads :
    /\ call[t].op = "CancelAsync"
    /\ "token" \in DOMAIN call[t].jsonValues
    /\ call[t].jsonValues["token"] = Null
    /\ "statusVersion" \in DOMAIN call[t].jsonValues
    /\ RaisedError(t, "MailStoreNoTokenError")

\* C10: GetStatus with a response that fails the token presence check
\* raises the no-token error and sends no request; it does not return.
C10_GetStatusWithoutToken ==
  \A t \in Threads :
    (/\ call[t].op = "GetStatus"
     /\ ~Trackable(call[t].jsonValues)
     /\ pc[t] # "idle")
    => /\ RaisedError(t, "MailStoreNoTokenError")
       /\ Len(Events(trace[t], "urlopen")) = 0

C10_Witness ==
  \E t \in Threads :
    /\ call[t].op = "GetStatus"
    /\ "token" \in DOMAIN call[t].jsonValues
    /\ call[t].jsonValues["token"] = "T1"
    /\ "statusVersion" \notin DOMAIN call[t].jsonValues
    /\ RaisedError(t, "MailStoreNoTokenError")

\* C11: the token presence check is true exactly for a response that has a
\* token field that is not null and a statusVersion field: GetStatus and
\* CancelAsync send their request exactly for such an argument, and a
\* wrapped method with automatic handling enters the poll loop (first
\* callback) exactly for such a first response.
C11_TokenPresenceCheck ==
  \A t \in Threads :
    /\ call[t].op \in {"GetStatus", "CancelAsync"}
         => /\ hasToken(call[t].jsonValues) <=> Trackable(call[t].jsonValues)
            /\ (Len(Events(trace[t], "urlopen")) >= 1)
                 <=> Trackable(call[t].jsonValues)
    /\ (/\ call[t].op = "Invoke"
        /\ EffectiveAutoHandle(t)
        /\ client.callbackStatus = "callable"
        /\ Len(Recvs(trace[t])) >= 1)
       => /\ hasToken(Recvs(trace[t])[1]) <=> Trackable(Recvs(trace[t])[1])
          /\ (Len(Callbacks(trace[t])) >= 1) <=> Trackable(Recvs(trace[t])[1])

C11_Witness ==
  \E t \in Threads :
    /\ call[t].op = "CancelAsync"
    /\ DOMAIN call[t].jsonValues = {"token", "statusVersion"}
    /\ call[t].jsonValues["token"] = ""
    /\ call[t].jsonValues["statusVersion"] = 0
    /\ Len(Events(trace[t], "urlopen")) = 1

\* C12: the effective autoHandle flag of a wrapped method is the per-call
\* argument when one is given and the client's default otherwise: the
\* request is made under that flag, a false flag returns a trackable running
\* first response without polling, a true flag polls it and returns nothing
\* that is still running.
C12_EffectiveAutoHandle ==
  \A t \in Threads :
    call[t].op = "Invoke"
      => /\ (pc[t] = "urlopen" /\ Len(trace[t]) = 1)
              => frame[t].autoHandleToken = EffectiveAutoHandle(t)
         /\ (/\ Len(Recvs(trace[t])) >= 1
             /\ Trackable(Recvs(trace[t])[1])
             /\ IsRunning(Recvs(trace[t])[1]))
            => IF EffectiveAutoHandle(t)
               THEN /\ Len(StatusCalls(trace[t])) >= 1
                    /\ pc[t] = "returned" => IsTerminal(result[t].value)
               ELSE /\ Len(StatusCalls(trace[t])) = 0
                    /\ ReturnedValue(t, Recvs(trace[t])[1])

C12_Witness ==
  \E t \in Threads :
    /\ call[t].op = "Invoke"
    /\ call[t].autoHandleToken = Some(TRUE)
    /\ ~client.autoHandleToken
    /\ Len(Recvs(trace[t])) = 3
    /\ Len(StatusCalls(trace[t])) = 2
    /\ IsTerminal(Recvs(trace[t])[3])
    /\ ReturnedValue(t, Recvs(trace[t])[3])

\* C13: GetStatus is not subject to automatic token handling: called on a
\* trackable response it sends one request, the status check, makes no
\* callback and returns the response to that request, also when the client's
\* default is automatic handling and the answer is trackable and running.
C13_GetStatusSingleStep ==
  \A t \in Threads :
    (call[t].op = "GetStatus" /\ Trackable(call[t].jsonValues))
    => /\ Len(Events(trace[t], "urlopen")) = 1
       /\ trace[t][1].ev = "urlopen"
       /\ trace[t][1].method = "get-status"
       /\ Len(Callbacks(trace[t])) = 0
       /\ pc[t] = "urlopen" => ~frame[t].autoHandleToken
       /\ Len(Recvs(trace[t])) >= 1
            => /\ ReturnedValue(t, Recvs(trace[t])[1])
               /\ Len(trace[t]) = 2

C13_Witness ==
  \E t \in Threads :
    /\ call[t].op = "GetStatus"
    /\ client.autoHandleToken
    /\ client.callbackStatus = "callable"
    /\ Len(Recvs(trace[t])) = 1
    /\ Trackable(Recvs(trace[t])[1])
    /\ IsRunning(Recvs(trace[t])[1])
    /\ ReturnedValue(t, Recvs(trace[t])[1])

\* C14: every status-check request carries the three arguments token,
\* millisecondsTimeout and lastKnownStatusVersion, for every trackable
\* response and every wait time (also a wait time of 0, a statusVersion of 0
\* and an empty token).
C14_StatusCheckArguments ==
  \A t \in Threads :
    \A i \in 1..Len(trace[t]) :
      (trace[t][i].ev = "urlopen" /\ trace[t][i].method = "get-status")
        => DOMAIN trace[t][i].data =
             {"token", "millisecondsTimeout", "lastKnownStatusVersion"}

\* C15: a status refresh the caller asks for uses the wait time passed for
\* that call whenever one is passed (also 0), and the client's default only
\* when none is passed: a millisecondsTimeout that is sent is that value.
C15_ExplicitWaitTime ==
  \A t \in Threads :
    (/\ call[t].op = "GetStatus"
     /\ Trackable(call[t].jsonValues)
     /\ call[t].jsonValues["token"] # ""
     /\ "millisecondsTimeout" \in DOMAIN trace[t][1].data)
    => trace[t][1].data["millisecondsTimeout"] =
         IF call[t].waitTime = None THEN client.waitTime
         ELSE call[t].waitTime[1]

\* The response a call received last before its i-th event.
LatestRecvBefore(tr, i) ==
  LET j == CHOOSE j \in 1..(i - 1) :
             /\ tr[j].ev = "recv"
             /\ \A k \in (j + 1)..(i - 1) : tr[k].ev # "recv"
  IN tr[j].jsonValues

\* C16: each status refresh sent by the poll loop carries the token and the
\* statusVersion of the response received last (the initial response for
\* the first refresh, the previous refresh's response afterwards).
C16_RefreshCarriesLatest ==
  \A t \in Threads :
    \A i \in 2..Len(trace[t]) :
      (trace[t][i].ev = "urlopen" /\ trace[t][i].method = "get-status")
        => LET r == LatestRecvBefore(trace[t], i)
               d == trace[t][i].data
           IN /\ "token" \in DOMAIN d
              /\ d["token"] = r["token"]
              /\ "lastKnownStatusVersion" \in DOMAIN d
              /\ d["lastKnownStatusVersion"] = Str(r["statusVersion"])

\* C17: in an automatically handled call with a progress callback, callbacks
\* and status checks alternate: each response is handed to the callback as
\* soon as it is received (the initial one and every refresh result), and
\* each status check directly follows the callback for the response it
\* refreshes.
C17_CallbacksAlternate ==
  \A t \in Threads :
    (AutoHandled(t) /\ client.callbackStatus = "callable")
    => \A i \in 1..Len(trace[t]) :
         /\ trace[t][i].ev = "recv"
              => /\ i + 1 <= Len(trace[t])
                 /\ trace[t][i + 1] = CallbackEvent(trace[t][i].jsonValues)
         /\ trace[t][i].ev = "callback"
              => /\ i > 1
                 /\ trace[t][i - 1] = RecvEvent(trace[t][i].jsonValues)
         /\ (trace[t][i].ev = "urlopen" /\ trace[t][i].method = "get-status")
              => /\ i > 1
                 /\ trace[t][i - 1] = CallbackEvent(trace[t][i].on)

C17_Witness ==
  \E t \in Threads :
    /\ AutoHandled(t)
    /\ client.callbackStatus = "callable"
    /\ Len(trace[t]) = 9
    /\ Len(StatusCalls(trace[t])) = 2
    /\ Len(Callbacks(trace[t])) = 3
    /\ trace[t][6].ev = "callback"
    /\ trace[t][7].ev = "urlopen"
    /\ pc[t] = "returned"

\* C18: every response handed to the progress callback has a statusVersion:
\* the initial one and each refresh result, the terminal one included
\* (stated for the callbacks of a call that returned).
C18_CallbackSeesVersion ==
  \A t \in Threads :
    (AutoHandled(t) /\ Recvs(trace[t])[1]["token"] # "" /\ pc[t] = "returned")
    => \A i \in 1..Len(trace[t]) :
         trace[t][i].ev = "callback"
           => "statusVersion" \in DOMAIN trace[t][i].jsonValues

\* C19: a status refresh answered with a statusVersion that is not greater
\* than the one sent in the request ends in an error for the caller; it is
\* not accepted and polled on (stated for the refreshes of the poll loop
\* that are answered with a trackable response).
C19_VersionMustIncrease ==
  \A t \in Threads :
    \A i \in 2..Len(trace[t]) :
      (/\ AutoHandled(t)
       /\ Recvs(trace[t])[1]["token"] # ""
       /\ trace[t][i].ev = "recv"
       /\ Trackable(trace[t][i].jsonValues)
       /\ trace[t][i].jsonValues["token"] # ""
       /\ trace[t][i - 1].ev = "urlopen"
       /\ trace[t][i - 1].method = "get-status"
       /\ "statusVersion" \in DOMAIN trace[t][i].jsonValues
       /\ trace[t][i].jsonValues["statusVersion"]
            <= trace[t][i - 1].on["statusVersion"])
      => pc[t] = "raised"

\* C20: when the server, polled for a trackable running task, answers with a
\* statusCode other than "running" after trackable running answers only, the
\* automatically handled call terminates and returns.  The rest of the call
\* runs as soon as the answer is in, so the call has returned in every state
\* that holds that answer.
C20_TerminalAnswerReturns ==
  \A t \in Threads :
    LET r == Recvs(trace[t])
    IN (/\ AutoHandled(t)
        /\ Len(r) >= 2
        /\ \A i \in 1..(Len(r) - 1) :
             Trackable(r[i]) /\ IsRunning(r[i]) /\ r[i]["token"] # ""
        /\ IsTerminal(Last(r)))
       => pc[t] = "returned"

\* The responses that belong to the operation of caller t: the ones it
\* received and, for GetStatus and CancelAsync, the one it was called with.
OwnResponses(t) ==
  {Recvs(trace[t])[i] : i \in 1..Len(Recvs(trace[t]))}
    \cup (IF call[t].op \in {"GetStatus", "CancelAsync"}
          THEN {call[t].jsonValues} ELSE {})

\* C21: operations that run concurrently on one client are independent under
\* every interleaving: each status check of an operation carries the token
\* and the statusVersion of one of that operation's own responses (never the
\* token of another caller's task), a wrapped method returns the response it
\* received last itself, and under automatic handling that is a terminal one.
C21_ConcurrentCallsIndependent ==
  \A t \in Threads :
    /\ \A i \in 1..Len(trace[t]) :
         (trace[t][i].ev = "urlopen" /\ trace[t][i].method = "get-status")
           => /\ trace[t][i].on \in OwnResponses(t)
              /\ trace[t][i].on["token"] = TokenOf(t)
              /\ trace[t][i].data["token"] = TokenOf(t)
              /\ trace[t][i].data["lastKnownStatusVersion"] =
                   Str(trace[t][i].on["statusVersion"])
    /\ (call[t].op = "Invoke" /\ pc[t] = "returned")
         => /\ ReturnedValue(t, Last(Recvs(trace[t])))
            /\ result[t].value["token"] = TokenOf(t)
            /\ AutoHandled(t) => IsTerminal(result[t].value)

\* Two wrapped methods polled side by side, each with its own token, have
\* both returned.
C21_Witness ==
  /\ workload = "concurrent"
  /\ \A t \in {1, 2} :
       /\ call[t].op = "Invoke"
       /\ Len(StatusCalls(trace[t])) = 2
       /\ pc[t] = "returned"
       /\ result[t].value["token"] = TokenOf(t)

\* C22: no step of any operation (a wrapped method, the poll loop, GetStatus,
\* CancelAsync; returning or raising) changes the client's autoHandleToken,
\* waitTime or callbackStatus, so an override holds for its own call only: a
\* wrapped method started without autoHandleToken runs under the client's
\* default, and a GetStatus started without waitTime sends the client's
\* default wait time, whatever calls came before.
C22_ConfigurationKept ==
  [][/\ client' = client
     /\ \A t \in Threads :
          /\ (/\ call[t].op = ""
              /\ call'[t].op = "Invoke"
              /\ call'[t].autoHandleToken = None)
             => frame'[t].autoHandleToken = client.autoHandleToken
          /\ (/\ call[t].op = ""
              /\ call'[t].op = "GetStatus"
              /\ call'[t].waitTime = None
              /\ pc'[t] = "urlopen"
              /\ "millisecondsTimeout" \in DOMAIN trace'[t][1].data)
             => trace'[t][1].data["millisecondsTimeout"] = client.waitTime
    ]_vars

\* A wrapped method called with autoHandleToken=True on a client whose
\* default is False has polled and returned; the default is still False.
C22_Witness ==
  \E t \in Threads :
    /\ call[t].op = "Invoke"
    /\ call[t].autoHandleToken = Some(TRUE)
    /\ ~client.autoHandleToken
    /\ Len(StatusCalls(trace[t])) = 2
    /\ pc[t] = "returned"

\* C23: the poll loop counts nothing: as long as the initial response and
\* every refresh result so far (N of them, for every N the server's answers
\* allow) are trackable and "running", the loop has sent refresh N+1 and has
\* not returned; the call ends only with a response that is not "running" or
\* with an error (here the failure of refresh N+1).
C23_NoIterationBound ==
  \A t \in Threads :
    LET r == Recvs(trace[t])
    IN /\ (/\ AutoHandled(t)
           /\ \A i \in 1..Len(r) : Trackable(r[i]) /\ IsRunning(r[i]))
          => /\ Len(StatusCalls(trace[t])) = Len(r)
             /\ pc[t] # "returned"
             /\ pc[t] = "urlopen"
                  \/ /\ pc[t] = "raised"
                     /\ result[t].error \in TransportErrors
                     /\ trace[t][Len(trace[t]) - 1].ev = "urlopen"
                     /\ trace[t][Len(trace[t]) - 1].method = "get-status"
       /\ (AutoHandled(t) /\ pc[t] = "returned") => ~IsRunning(Last(r))

\* The initial response and the first refresh were trackable and running:
\* the second refresh is out.
C23_Witness ==
  \E t \in Threads :
    /\ AutoHandled(t)
    /\ Len(Recvs(trace[t])) = 2
    /\ \A i \in 1..2 :
         Trackable(Recvs(trace[t])[i]) /\ IsRunning(Recvs(trace[t])[i])
    /\ Len(StatusCalls(trace[t])) = 2
    /\ pc[t] = "urlopen"

\* C24: under automatic handling, a first response that is trackable and
\* already has a statusCode other than "running" is handed to the progress
\* callback once (when the client has one), no status check is sent, and
\* that response is returned.
C24_TerminalFirstResponse ==
  \A t \in Threads :
    (/\ AutoHandled(t)
     /\ IsTerminal(Recvs(trace[t])[1]))
    => /\ Len(StatusCalls(trace[t])) = 0
       /\ Len(Recvs(trace[t])) = 1
       /\ Callbacks(trace[t]) =
            IF client.callbackStatus = "callable"
            THEN <<Recvs(trace[t])[1]>> ELSE << >>
       /\ ReturnedValue(t, Recvs(trace[t])[1])

C24_Witness ==
  \E t \in Threads :
    /\ AutoHandled(t)
    /\ client.callbackStatus = "callable"
    /\ IsTerminal(Recvs(trace[t])[1])
    /\ Recvs(trace[t])[1]["statusCode"] = "bogus"
    /\ Callbacks(trace[t]) = <<Recvs(trace[t])[1]>>
    /\ ReturnedValue(t, Recvs(trace[t])[1])

\* C25: when a refresh of the poll loop is answered "running" by a response
\* that fails the token presence check (token missing or null, or no
\* statusVersion), that response still goes to the callback, no further
\* request is sent, and the call ends with MailStoreNoTokenError.
C25_UntrackableRefreshRaisesNoToken ==
  \A t \in Threads :
    LET r == Recvs(trace[t])
    IN (/\ AutoHandled(t)
        /\ Len(r) >= 2
        /\ \A i \in 1..(Len(r) - 1) :
             Trackable(r[i]) /\ IsRunning(r[i]) /\ r[i]["token"] # ""
        /\ IsRunning(Last(r))
        /\ ~Trackable(Last(r)))
       => /\ RaisedError(t, "MailStoreNoTokenError")
          /\ Len(StatusCalls(trace[t])) = Len(r) - 1
          /\ client.callbackStatus = "callable"
               => Last(Callbacks(trace[t])) = Last(r)

\* C26: only the poll loop makes progress callbacks: an operation whose
\* effective autoHandle flag is false, an operation whose response fails the
\* token presence check and a GetStatus call of the caller make none,
\* whatever the statusCode of the response.
C26_CallbackOnlyFromPollLoop ==
  \A t \in Threads :
    /\ (call[t].op \in {"Invoke", "CancelAsync"} /\ ~EffectiveAutoHandle(t))
         => Len(Callbacks(trace[t])) = 0
    /\ (/\ call[t].op \in {"Invoke", "CancelAsync"}
        /\ Len(Recvs(trace[t])) >= 1
        /\ ~Trackable(Recvs(trace[t])[1]))
         => Len(Callbacks(trace[t])) = 0
    /\ call[t].op = "GetStatus" => Len(Callbacks(trace[t])) = 0

\* A wrapped method called with autoHandleToken=False on a client with a
\* callback returned a trackable running response and made no callback.
C26_Witness ==
  \E t \in Threads :
    /\ call[t].op = "Invoke"
    /\ call[t].autoHandleToken = Some(FALSE)
    /\ client.autoHandleToken
    /\ client.callbackStatus = "callable"
    /\ Len(Recvs(trace[t])) = 1
    /\ Trackable(Recvs(trace[t])[1])
    /\ IsRunning(Recvs(trace[t])[1])
    /\ pc[t] = "returned"
    /\ Len(Callbacks(trace[t])) = 0

\* A trace without its callback events: the requests sent, the responses
\* received and the exception raised.
Erase(tr) == SelectSeq(tr, LAMBDA e : e.ev # "callback")

\* What __callMethod and __handleToken do with a decoded response when both
\* "if callable(self.callbackStatus)" blocks are skipped.
WithoutCallback(fr, jsonValues, tr) ==
  LET first == Append(tr, RecvEvent(jsonValues))
      got == IF hasToken(jsonValues) /\ fr.autoHandleToken
             THEN LoopHead(jsonValues, client.waitTime, first)
             ELSE Returned(jsonValues, first)
  IN IF fr.inHandleToken /\ got.pc = "returned"
     THEN LoopHead(got.result.value, fr.waitTime, got.trace)
     ELSE got

\* C27: the progress callback does not influence the protocol.  Whatever the
\* server answers to a pending request, a client with a callback does, apart
\* from the callbacks, what the callback-free code does from the same
\* requests and responses: the same next request with the same arguments,
\* the same returned value or the same exception; a failed request ends
\* both alike.  A client without a callback runs that callback-free code, so
\* the two clients stay in step for every sequence of server responses.
C27_CallbackDoesNotSteer ==
  \A t \in Threads :
    pc[t] = "urlopen"
      => /\ \A jsonValues \in JsonAny :
              LET with == AfterResponse(frame[t], jsonValues, trace[t])
                  without == WithoutCallback(frame[t], jsonValues,
                                             Erase(trace[t]))
              IN /\ with.pc = without.pc
                 /\ with.frame = without.frame
                 /\ with.result = without.result
                 /\ Erase(with.trace) = without.trace
                 /\ client.callbackStatus = "None" => with = without
         /\ \A error \in TransportErrors :
              LET with == AfterFailure(frame[t], error, trace[t])
              IN /\ with.pc = "raised"
                 /\ with.result = [kind |-> "raise", error |-> error]
                 /\ Erase(with.trace) =
                      Append(Erase(trace[t]), RaiseEvent(error))

\* A client with a callback has made two callbacks in a poll loop and waits
\* for the answer to its second refresh.
C27_Witness ==
  \E t \in Threads :
    /\ client.callbackStatus = "callable"
    /\ call[t].op = "Invoke"
    /\ pc[t] = "urlopen"
    /\ Len(Callbacks(trace[t])) = 2
    /\ Len(StatusCalls(trace[t])) = 2
    /\ Erase(trace[t]) # trace[t]

====
